---- MODULE Spec2Model ----
(***************************************************************************)
(* useControllable (src/src/useControllable.ts): one hook instance, i.e.   *)
(* one "controllable value session".  A render of the owning component     *)
(* calls the hook with a configuration {value, defaultValue, onChange} and *)
(* gets back [currentValue, setValue]; setValue functions handed out by    *)
(* earlier renders stay callable.                                          *)
(*                                                                         *)
(* T is instantiated with strings.  "" is a falsy but defined value.       *)
(***************************************************************************)
EXTENDS Naturals, Sequences, FiniteSets

\* ---- bounds ----
MaxCalls == 2        \* onChange invocations logged in one behaviour
MaxFns == 3          \* distinct setValue closures handed out in one behaviour

\* ---- value universe ----
Undefined == "undefined"                 \* the JS `undefined` marker
Values == {"", "a"}                      \* T; "" is falsy
Handlers == {"h1", "h2"}                 \* identities of onChange closures
OptValue == Values \cup {Undefined}
OptHandler == Handlers \cup {Undefined}
UseControllableStateParams == [value : OptValue, defaultValue : OptValue, onChange : OptHandler]
NoFn == 0                                \* "no function yet" (before the first render)

VARIABLES
    mounted,        \* has the hook run at least once (fiber has memoized hook state)
    config,         \* the params of the latest render
    internalValue,  \* the useState cell
    onChangeRef,    \* onChangeRef.current
    memo,           \* the useCallback cell: [deps, fn]
    closures,       \* closures[f] = what setValue function f captured (isControlled),
                    \*   with the mode of the read that created it (readMode, history)
    result,         \* the tuple returned by the latest render: [value, setValue]
    calls,          \* log of onChange invocations: <<[h, v], ...>>
    thrown,         \* the latest setValue call ended with an exception
    \* history (not program state)
    lastUpdate,     \* the latest setValue call: [made: has there been one, arg,
                    \*   ctrl: was an external value in force, captured: the mode
                    \*   of the read that created the function called, current:
                    \*   was it the function of the latest read]
    lastOp,         \* "none" | "read" | "update"
    created,        \* the first render: [was value present, defaultValue]
    heldAtEntry,    \* in a session created uncontrolled: internalValue when the
                    \*   current controlled period began (Undefined otherwise)
    handlerOnly     \* the latest step was a render that differed from the render
                    \*   before it in onChange only

vars == <<mounted, config, internalValue, onChangeRef, memo, closures, result,
          calls, thrown, lastUpdate, lastOp, created, heldAtEntry, handlerOnly>>

NoConfig == [value |-> Undefined, defaultValue |-> Undefined, onChange |-> Undefined]

\* ---- the hook body, line by line ----

\* line 60: useState(defaultValue): the initial value is used on the first
\* render only; later renders return the cell.
useStateReseed(isMounted, cell, initial) == initial
useState(isMounted, cell, initial) == IF isMounted THEN cell ELSE initial

\* line 61: const isControlled = value !== undefined
isControlledTruthy(value) == value # Undefined /\ value # ""
isControlled(value) == value # Undefined

\* lines 62, 65: useRef(onChange); onChangeRef.current = onChange
onChangeRefInitOnly(isMounted, current, onChange) == IF isMounted THEN current ELSE onChange
onChangeRefCurrent(isMounted, current, onChange) == onChange

\* line 74: the dependency list of useCallback
setValueDepsWithHandler(controlled, onChange) == <<controlled, onChange>>
setValueDepsNone(controlled, onChange) == <<>>
setValueDeps(controlled, onChange) == <<controlled>>

\* lines 67, 75: useCallback returns the memoized function while the
\* dependency list is unchanged, else the function created by this render.
useCallback(isMounted, cell, deps, fresh) ==
    IF isMounted /\ cell.deps = deps THEN cell.fn ELSE fresh

\* line 77: isControlled ? value : internalValue
returnedValueInternalFirst(controlled, value, internal) ==
    IF internal # Undefined THEN internal ELSE value
returnedValue(controlled, value, internal) == IF controlled THEN value ELSE internal

\* lines 69-71 of setValue: if (!isControlled) setInternalValue(nextValue)
setInternalValueNever(env, internal, nextValue) == internal
setInternalValueAlways(env, internal, nextValue) == nextValue
setInternalValue(env, internal, nextValue) ==
    IF ~env.isControlled THEN nextValue ELSE internal

\* line 72 of setValue: onChangeRef.current?.(nextValue)
notifyOnChangeUncontrolledOnly(env, ref, log, nextValue) ==
    IF ref # Undefined /\ ~env.isControlled THEN Append(log, [h |-> ref, v |-> nextValue]) ELSE log
notifyOnChangeDistinct(env, ref, log, nextValue) ==
    IF ref # Undefined /\ (log = <<>> \/ log[Len(log)].v # nextValue)
      THEN Append(log, [h |-> ref, v |-> nextValue]) ELSE log
notifyOnChange(env, ref, log, nextValue) ==
    IF ref # Undefined THEN Append(log, [h |-> ref, v |-> nextValue]) ELSE log

\* line 72, the ?.( of the call: an absent handler is skipped, where a plain
\* call of undefined would raise a TypeError.
plainCall(ref) == IF ref = Undefined THEN "TypeError" ELSE "called"
optionalCall(ref) == IF ref = Undefined THEN "skipped" ELSE "called"

Init ==
    /\ mounted = FALSE
    /\ config = NoConfig
    /\ internalValue = Undefined
    /\ onChangeRef = Undefined
    /\ memo = [deps |-> <<>>, fn |-> NoFn]
    /\ closures = <<>>
    /\ result = [value |-> Undefined, setValue |-> NoFn]
    /\ calls = <<>>
    /\ thrown = FALSE
    /\ lastUpdate = [made |-> FALSE, arg |-> Undefined, ctrl |-> FALSE,
                     captured |-> FALSE, current |-> FALSE]
    /\ lastOp = "none"
    /\ created = [controlled |-> FALSE, defaultValue |-> Undefined]
    /\ heldAtEntry = Undefined
    /\ handlerOnly = FALSE

\* One call of useControllable(params): the first render creates the session,
\* every later one re-reads it.
Render(params) ==
    LET cell == useState(mounted, internalValue, params.defaultValue)
        controlled == isControlled(params.value)
        deps == setValueDeps(controlled, params.onChange)
        fresh == Len(closures) + 1
        fn == useCallback(mounted, memo, deps, fresh)
    IN  /\ (fn = fresh => Len(closures) < MaxFns)
        /\ mounted' = TRUE
        /\ config' = params
        /\ internalValue' = cell
        /\ onChangeRef' = onChangeRefCurrent(mounted, onChangeRef, params.onChange)
        /\ memo' = [deps |-> deps, fn |-> fn]
        /\ closures' = IF fn = fresh
                         THEN Append(closures, [isControlled |-> controlled,
                                                readMode |-> params.value # Undefined])
                         ELSE closures
        /\ result' = [value |-> returnedValue(controlled, params.value, cell),
                      setValue |-> fn]
        /\ lastOp' = "read"
        /\ created' = IF mounted THEN created
                        ELSE [controlled |-> params.value # Undefined,
                              defaultValue |-> params.defaultValue]
        /\ heldAtEntry' = IF params.value = Undefined \/ created'.controlled THEN Undefined
                          ELSE IF ~mounted \/ config.value = Undefined THEN internalValue'
                          ELSE heldAtEntry
        /\ handlerOnly' = (/\ mounted
                            /\ params.value = config.value
                            /\ params.defaultValue = config.defaultValue
                            /\ params.onChange # config.onChange)
        /\ UNCHANGED <<calls, thrown, lastUpdate>>

\* One call of a setValue function the session has handed out.
SetValue(f, nextValue) ==
    /\ mounted
    /\ f \in 1..Len(closures)
    /\ (onChangeRef # Undefined => Len(calls) < MaxCalls)
    /\ internalValue' = setInternalValue(closures[f], internalValue, nextValue)
    /\ calls' = notifyOnChange(closures[f], onChangeRef, calls, nextValue)
    /\ thrown' = (optionalCall(onChangeRef) = "TypeError")
    /\ lastUpdate' = [made |-> TRUE, arg |-> nextValue, ctrl |-> config.value # Undefined,
                      captured |-> closures[f].readMode,
                      current |-> f = result.setValue]
    /\ lastOp' = "update"
    /\ handlerOnly' = FALSE
    /\ UNCHANGED <<mounted, config, onChangeRef, memo, closures, result, created,
                   heldAtEntry>>

Next ==
    \/ \E params \in UseControllableStateParams : Render(params)
    \/ \E f \in 1..MaxFns, nextValue \in Values : SetValue(f, nextValue)

Spec == Init /\ [][Next]_vars

\* ---- vocabulary of the claims (independent of the hook's own tests) ----

ExternalPresent == config.value # Undefined        \* the session is controlled now
AfterRead == mounted /\ lastOp = "read"
AfterUpdate == mounted /\ lastOp = "update"
Updated == mounted /\ lastUpdate.made              \* update has been called
ThroughCurrent == lastUpdate.current               \* ... through the function of the latest read
\* the step is a read (a call of the hook) / an update call
ReadStep == lastOp' = "read"
UpdateStep == lastOp' = "update"
\* the notification an update call with argument x owes: exactly one call of
\* the handler of the configuration in force, if there is one
Owed(x) == IF config.onChange # Undefined
             THEN <<[h |-> config.onChange, v |-> x]>> ELSE <<>>

\* C1: in an uncontrolled session, update(x) calls the handler of the
\* configuration in force, if any, exactly once with x, and the reads that
\* follow (while the session stays uncontrolled) return x.
C1_UncontrolledUpdateThenRead ==
    /\ []((Updated /\ ThroughCurrent /\ ~lastUpdate.ctrl /\ AfterRead /\ ~ExternalPresent)
            => result.value = lastUpdate.arg)
    /\ [][(UpdateStep /\ ~ExternalPresent /\ lastUpdate'.current)
            => calls' = calls \o Owed(lastUpdate'.arg)]_vars
C1_Witness ==
    /\ Updated /\ ThroughCurrent /\ ~lastUpdate.ctrl
    /\ AfterRead /\ ~ExternalPresent
    /\ created.defaultValue = "a" /\ lastUpdate.arg = "" /\ result.value = ""
    /\ config.onChange = "h1" /\ calls = <<[h |-> "h1", v |-> ""]>>

\* C2: in a controlled session with external value V, update(x) through any
\* function calls the handler in force, if any, exactly once with x and
\* leaves the reported value alone; every read that still supplies V
\* returns V.
C2_ControlledUpdateKeepsValue ==
    [][/\ (UpdateStep /\ ExternalPresent
              => /\ calls' = calls \o Owed(lastUpdate'.arg)
                 /\ result' = result)
       /\ (mounted /\ ReadStep /\ ExternalPresent /\ config'.value = config.value
              => result'.value = config.value)]_vars
C2_Witness ==
    /\ Updated /\ lastUpdate.ctrl /\ lastUpdate.arg = ""
    /\ AfterRead /\ config.value = "a" /\ result.value = "a"
    /\ config.onChange = "h2" /\ calls = <<[h |-> "h2", v |-> ""]>>

\* C3: a read reports the external value whenever it is present (falsy or
\* not, default supplied or not), and the internal holder otherwise.
C3_PresenceSelectsValue ==
    AfterRead => result.value = IF config.value # Undefined
                                  THEN config.value ELSE internalValue
C3_Witness ==
    /\ AfterRead /\ config.value = "" /\ config.defaultValue = "a"
    /\ internalValue = "a" /\ result.value = ""

\* C4: every update call appends to the handler log, before it returns,
\* exactly the one notification it owes (the handler in force, with the
\* call's argument; nothing when no handler is configured), in either mode,
\* and nothing else ever touches the log: after n update calls with a handler
\* configured the log holds their n entries in call order.
C4_OneNotificationPerUpdate ==
    [][/\ (UpdateStep => calls' = calls \o Owed(lastUpdate'.arg))
       /\ (ReadStep => calls' = calls)]_vars
C4_Witness ==
    /\ AfterUpdate /\ Len(calls) = 2
    /\ calls[1].v # calls[2].v
    /\ lastUpdate.ctrl /\ internalValue # Undefined

\* C5: when the handler was replaced after an earlier update call had invoked
\* the old one, the next update call invokes the new handler only, also
\* through a function handed out before the replacement.
C5_HandlerFreshness ==
    [][(/\ UpdateStep /\ calls # <<>>
        /\ config.onChange # Undefined
        /\ calls[Len(calls)].h # config.onChange)
          => calls' = Append(calls, [h |-> config.onChange, v |-> lastUpdate'.arg])]_vars
C5_Witness ==
    /\ AfterUpdate /\ calls = <<[h |-> "h1", v |-> "a"], [h |-> "h2", v |-> ""]>>
    /\ config.onChange = "h2" /\ lastUpdate.arg = ""
    /\ ThroughCurrent /\ result.setValue = 1 /\ Len(closures) = 1

\* C6: an update call made while the configuration supplies an external value
\* leaves the internal holder unchanged, whichever of the functions handed
\* out so far is called, and no read of the created session changes it.
C6_HolderWrittenOnlyWhenUncontrolled ==
    [][/\ (mounted /\ ExternalPresent /\ UpdateStep
              => internalValue' = internalValue)
       /\ (mounted /\ ReadStep => internalValue' = internalValue)]_vars

\* C7: a session created uncontrolled reports W on the first read that
\* supplies external value W, and on the first read after the external value
\* is removed again it reports the internal value it held when it turned
\* controlled, whatever update calls were made in between.
C7_ModeReevaluation ==
    [][(mounted /\ ~created.controlled /\ ReadStep)
          => /\ (config'.value # Undefined => result'.value = config'.value)
             /\ (ExternalPresent /\ config'.value = Undefined
                    => result'.value = heldAtEntry)]_vars

\* C8: while update has not been called, every read of an uncontrolled
\* session returns the defaultValue of the creating configuration, whatever
\* defaultValue later configurations carry.
C8_SeededOnceFromDefault ==
    (AfterRead /\ ~Updated /\ ~ExternalPresent) => result.value = created.defaultValue
C8_Witness ==
    /\ AfterRead /\ ~Updated /\ ~ExternalPresent
    /\ created.defaultValue = "a" /\ config.defaultValue = "" /\ result.value = "a"

\* C9: a session created with an external value present holds nothing seeded
\* from defaultValue: once the external value is removed, with no update in
\* between, the read returns the absent marker.
C9_DefaultIgnoredWhenCreatedControlled ==
    (AfterRead /\ created.controlled /\ ~Updated /\ ~ExternalPresent)
        => result.value = Undefined

\* C10: a read whose configuration differs from the previous read's in the
\* change handler only returns the same update function as the previous read.
C10_StableUpdateFunction ==
    [][(/\ mounted /\ ReadStep
        /\ config'.value = config.value
        /\ config'.defaultValue = config.defaultValue)
          => result'.setValue = result.setValue]_vars
C10_Witness ==
    /\ AfterRead /\ handlerOnly
    /\ config.onChange = "h2" /\ Len(calls) > 0 /\ calls[1].h = "h1"
    /\ result.setValue = 1

\* C11: a read of the created session never invokes the handler and never
\* changes the internal holder, and a read that follows a read with the same
\* configuration returns the same value.
C11_ReadsAreIdempotent ==
    [][(mounted /\ ReadStep)
          => /\ calls' = calls
             /\ internalValue' = internalValue
             /\ (lastOp = "read" /\ config' = config => result'.value = result.value)]_vars
C11_Witness ==
    /\ AfterRead /\ ~Updated /\ calls = <<>>
    /\ config.onChange = "h1" /\ ~ExternalPresent
    /\ created.defaultValue = "a" /\ config.defaultValue = Undefined
    /\ internalValue = "a" /\ result.value = "a"

\* C12: an update call made while no handler is configured ends without an
\* exception and without a notification, and in uncontrolled mode stores its
\* argument; a session created with no value and no default reads the absent
\* marker until update is called, and x after update(x).
C12_UpdateNeverFails ==
    /\ []~thrown
    /\ []((AfterRead /\ ~Updated /\ ~created.controlled /\ ~ExternalPresent
              /\ created.defaultValue = Undefined)
            => result.value = Undefined)
    /\ []((AfterRead /\ Updated /\ ThroughCurrent /\ ~lastUpdate.ctrl /\ ~ExternalPresent
              /\ ~created.controlled /\ created.defaultValue = Undefined)
            => result.value = lastUpdate.arg)
    /\ [][(UpdateStep /\ config.onChange = Undefined)
            => /\ calls' = calls
               /\ (~ExternalPresent /\ lastUpdate'.current
                      => internalValue' = lastUpdate'.arg)]_vars
C12_Witness ==
    /\ AfterRead /\ Updated /\ ThroughCurrent /\ ~lastUpdate.ctrl
    /\ ~created.controlled /\ created.defaultValue = Undefined
    /\ config = NoConfig /\ calls = <<>> /\ ~thrown
    /\ lastUpdate.arg = "a" /\ internalValue = "a" /\ result.value = "a"

\* C13: the mode computed by every read of a session is the mode computed by
\* its first read.
C13_ModeFixedAtFirstRead ==
    AfterRead => memo.deps = <<created.controlled>>

\* C14: controlled round trip.  The host stores what its handler received as
\* the external value and re-reads with nothing else changed: the update call
\* made one handler invocation and left the internal holder alone, and the
\* re-read makes no further invocation, returns x and leaves the holder alone.
C14_ControlledRoundTrip ==
    [][/\ (UpdateStep /\ ExternalPresent /\ lastUpdate'.current /\ config.onChange # Undefined)
          => /\ calls' = Append(calls, [h |-> config.onChange, v |-> lastUpdate'.arg])
             /\ internalValue' = internalValue
       /\ (/\ AfterUpdate /\ ExternalPresent /\ lastUpdate.current
           /\ config.onChange # Undefined /\ calls # <<>>
           /\ ReadStep /\ config' = [config EXCEPT !.value = calls[Len(calls)].v])
          => /\ calls' = calls
             /\ result'.value = lastUpdate.arg
             /\ internalValue' = internalValue]_vars
C14_Witness ==
    /\ AfterRead /\ Updated /\ lastUpdate.ctrl /\ ThroughCurrent
    /\ created.controlled /\ created.defaultValue = Undefined
    /\ config = [value |-> "a", defaultValue |-> Undefined, onChange |-> "h1"]
    /\ calls = <<[h |-> "h1", v |-> "a"]>> /\ lastUpdate.arg = "a"
    /\ result.value = "a" /\ internalValue = Undefined

\* C15: an update call through a function created by a read of the other mode
\* than the one in force writes or skips the internal holder by the mode of
\* that read: created uncontrolled and called while controlled it overwrites
\* the holder, created controlled and called while uncontrolled it leaves the
\* holder alone; either way the handler in force is invoked once.
C15_StaleFunctionKeepsItsMode ==
    [][(UpdateStep /\ lastUpdate'.captured # (config.value # Undefined))
          => /\ internalValue' = IF lastUpdate'.captured THEN internalValue
                                                         ELSE lastUpdate'.arg
             /\ calls' = calls \o Owed(lastUpdate'.arg)]_vars
C15_Witness ==
    /\ AfterUpdate /\ lastUpdate.ctrl /\ ~lastUpdate.captured /\ ~ThroughCurrent
    /\ ExternalPresent /\ created.defaultValue = "a"
    /\ lastUpdate.arg = "" /\ internalValue = ""
    /\ config.onChange = "h2" /\ calls = <<[h |-> "h2", v |-> ""]>>

\* C16: a read returns the update function of the previous read exactly when
\* the two reads have the same mode.
C16_FunctionChangesWithMode ==
    [][(mounted /\ ReadStep)
          => ((result'.setValue = result.setValue)
                <=> ((config'.value # Undefined) <=> (config.value # Undefined)))]_vars
C16_Witness ==
    /\ AfterRead /\ ~created.controlled /\ ExternalPresent
    /\ Len(closures) = 2 /\ result.setValue = 2 /\ handlerOnly

\* C17: an update call whose argument equals the value currently reported
\* still invokes the handler in force exactly once, in either mode.
C17_NoEqualityCheck ==
    [][(UpdateStep /\ lastUpdate'.arg = result.value /\ config.onChange # Undefined)
          => calls' = Append(calls, [h |-> config.onChange, v |-> result.value])]_vars
C17_Witness ==
    /\ AfterUpdate /\ lastUpdate.arg = result.value /\ ~ExternalPresent
    /\ internalValue = result.value
    /\ calls = <<[h |-> "h1", v |-> "a"], [h |-> "h1", v |-> "a"]>>

TypeOK ==
    /\ mounted \in BOOLEAN
    /\ config \in UseControllableStateParams
    /\ internalValue \in OptValue
    /\ onChangeRef \in OptHandler
    /\ Len(closures) <= MaxFns
    /\ Len(calls) <= MaxCalls
    /\ thrown \in BOOLEAN
    /\ lastOp \in {"none", "read", "update"}

====
